---- MODULE Spec2Model ----
(***************************************************************************)
(* Conway's Game of Life engine of examples/game-of-life/src/game.ts.      *)
(*                                                                         *)
(* JavaScript arrays are reference values, so grids live in a heap: a row  *)
(* array is an entry of heap.rows, a grid array is an entry of heap.grids  *)
(* holding the references of its rows.  A reference is the 1-based index   *)
(* of the entry; 0 is "no grid".  Cell coordinates (x, y) are 0-based as   *)
(* in the source.  A text is a sequence of one-character strings.          *)
(***************************************************************************)
EXTENDS Integers, Sequences, FiniteSets, TLC

\* Bounds of the explored inputs: the longest side and the most cells of a
\* grid literal, the longest pattern text, the largest generation count.
MaxSide == 3
MaxCells == 9
MaxText == 4
MaxGen == 3

VARIABLES heap, heap0, pc, op, text, arg, argX, argY, generations, i, grid,
          calls, ret, err, cli, metl

\* heap         the arrays allocated so far
\* heap0        the heap as it was when the running (or last) call began
\* pc           "start": nothing built; "ready": the caller holds a grid;
\*              "simulate": inside the loop of simulate; "returned": the call
\*              has returned or thrown
\* op           the function called last
\* text         the argument of parsePattern
\* arg          the grid argument of the call (a reference)
\* argX, argY   the coordinates given to countLiveNeighbors (the width and
\*              height given to createEmptyGrid)
\* generations  the argument of simulate
\* i, grid      the locals of simulate
\* calls        the number of nextGeneration invocations of the call
\* ret          what the call returned
\* err          the message of the error thrown, "" if none
\* cli          the process of the Game of Life command-line runner
\* metl         the process of the METL command-line tool
vars == <<heap, heap0, pc, op, text, arg, argX, argY, generations, i, grid,
          calls, ret, err, cli, metl>>

----------------------------------------------------------------------------
\* Text helpers (String.prototype.trim, String.prototype.split('\n')).

Chars == {"O", ".", " ", "\n"}

\* The glider of the demonstration, '.O.' / '..O' / 'OOO'.
GliderText == <<".", "O", ".", "\n", ".", ".", "O", "\n", "O", "O", "O">>

\* The glider as the unit tests write it: a template literal that begins
\* with a line break, indents every line and ends with an indented line.
GliderTestText ==
  <<"\n", " ", " ", " ", " ", ".", "O", ".",
    "\n", " ", " ", " ", " ", ".", ".", "O",
    "\n", " ", " ", " ", " ", "O", "O", "O",
    "\n", " ", " ">>

Texts ==
  UNION {[1..n -> Chars] : n \in 0..MaxText} \cup {GliderText, GliderTestText}

IsSpace(c) == c \in {" ", "\n"}

RECURSIVE TrimStart(_)
TrimStart(s) ==
  IF Len(s) > 0 /\ IsSpace(s[1]) THEN TrimStart(SubSeq(s, 2, Len(s))) ELSE s

RECURSIVE TrimEnd(_)
TrimEnd(s) ==
  IF Len(s) > 0 /\ IsSpace(s[Len(s)]) THEN TrimEnd(SubSeq(s, 1, Len(s) - 1))
  ELSE s

Trim(s) == TrimEnd(TrimStart(s))

\* split('\n'): k is the read position, cur the piece being read, acc the
\* pieces already closed.  The last piece is always emitted, so the result of
\* splitting the empty text is one empty piece.
RECURSIVE SplitFrom(_, _, _, _)
SplitFrom(s, k, cur, acc) ==
  IF k > Len(s) THEN Append(acc, cur)
  ELSE IF s[k] = "\n" THEN SplitFrom(s, k + 1, <<>>, Append(acc, cur))
  ELSE SplitFrom(s, k + 1, Append(cur, s[k]), acc)

\* Split dropping the empty pieces.
SplitNonEmpty(s) ==
  SelectSeq(SplitFrom(s, 1, <<>>, <<>>), LAMBDA piece : Len(piece) > 0)

Split(s) == SplitFrom(s, 1, <<>>, <<>>)

\* pattern.trim().split('\n').map(line => line.trim())
PatternLines(pattern) ==
  LET parts == Split(Trim(pattern))
  IN  [k \in 1..Len(parts) |-> Trim(parts[k])]

\* Math.max(...lines.map(line => line.length)) for a non-empty list.
MaxLineLength(lines) ==
  CHOOSE m \in {Len(lines[k]) : k \in 1..Len(lines)} :
    \A k \in 1..Len(lines) : Len(lines[k]) <= m

\* IsLiveChar taking '.' as the live character.
IsLiveCharDot(line, idx) == idx < Len(line) /\ line[idx + 1] = "."

\* IsLiveChar taking every character but '.' as live.
IsLiveCharNotDot(line, idx) == ~(idx < Len(line) /\ line[idx + 1] = ".")

\* line[i] === 'O' (line[i] is undefined past the end of the line).
IsLiveChar(line, idx) == idx < Len(line) /\ line[idx + 1] = "O"

----------------------------------------------------------------------------
\* The heap of arrays.

EmptyHeap == [rows |-> <<>>, grids |-> <<>>]

NoRet ==
  [grid |-> 0, width |-> -1, height |-> -1, count |-> -1, str |-> <<>>]

\* grid.length
Height(h, g) == Len(h.grids[g])

\* grid[0].length (read only where grid.length > 0)
Width(h, g) == Len(h.rows[h.grids[g][1]])

HasRow(h, g, y) == y >= 0 /\ y < Len(h.grids[g])

\* Truthiness of grid[y][x]; a missing element is undefined, which is falsy.
Live(h, g, y, x) ==
  /\ HasRow(h, g, y)
  /\ x >= 0
  /\ x < Len(h.rows[h.grids[g][y + 1]])
  /\ h.rows[h.grids[g][y + 1]][x + 1]

\* grid[y][x] = v on an existing row y; an assignment past the end of a row
\* lengthens the row (the skipped elements are holes, which are falsy).
Put(h, g, y, x, v) ==
  LET r == h.grids[g][y + 1]
      old == h.rows[r]
      padded == IF x + 1 > Len(old)
                  THEN old \o [c \in 1..(x + 1 - Len(old)) |-> FALSE]
                  ELSE old
      new == SubSeq(padded, 1, x) \o <<v>> \o
               SubSeq(padded, x + 2, Len(padded))
  IN  [h EXCEPT !.rows[r] = new]

\* The value of a grid: its rows, each the sequence of its cells.
GridValue(h, g) == [r \in 1..Len(h.grids[g]) |-> h.rows[h.grids[g][r]]]

\* Allocation of a grid with the rows v: a fresh array per row, then the
\* array of the rows.
Load(h, v) ==
  [rows  |-> h.rows \o v,
   grids |-> Append(h.grids, [r \in 1..Len(v) |-> Len(h.rows) + r])]

\* Rectangular grid values, the empty ones ([] and rows of length 0) included.
\* The block of the unit tests: a 2x2 block inside a dead border.
BlockGrid ==
  <<<<FALSE, FALSE, FALSE, FALSE>>,
    <<FALSE, TRUE, TRUE, FALSE>>,
    <<FALSE, TRUE, TRUE, FALSE>>,
    <<FALSE, FALSE, FALSE, FALSE>>>>

GridValues ==
  UNION {[1..hh -> [1..ww -> BOOLEAN]] :
           <<ww, hh>> \in {d \in (0..MaxSide) \X (0..MaxSide) :
                             d[1] * d[2] <= MaxCells}}
    \cup {BlockGrid}

----------------------------------------------------------------------------
\* createEmptyGrid

\* DimensionsInvalid rejecting only when both dimensions are invalid.
DimensionsInvalidBoth(width, height) == width <= 0 /\ height <= 0

\* if (width <= 0 || height <= 0) throw
DimensionsInvalid(width, height) == width <= 0 \/ height <= 0

\* CreateEmptyGrid filling the grid with one row array, as
\* Array(height).fill(Array(width).fill(false)) does.
CreateEmptyGridSharedRow(h, width, height) ==
  IF DimensionsInvalid(width, height)
  THEN [heap |-> h, ref |-> 0, err |-> "Grid dimensions must be positive"]
  ELSE [heap |-> [rows  |-> Append(h.rows, [c \in 1..width |-> FALSE]),
                  grids |-> Append(h.grids,
                                   [r \in 1..height |-> Len(h.rows) + 1])],
        ref  |-> Len(h.grids) + 1,
        err  |-> ""]

\* Array(height).fill(null).map(() => Array(width).fill(false))
CreateEmptyGrid(h, width, height) ==
  IF DimensionsInvalid(width, height)
  THEN [heap |-> h, ref |-> 0, err |-> "Grid dimensions must be positive"]
  ELSE [heap |-> Load(h, [r \in 1..height |-> [c \in 1..width |-> FALSE]]),
        ref  |-> Len(h.grids) + 1,
        err  |-> ""]

----------------------------------------------------------------------------
\* parsePattern

ParsePattern(h, pattern) ==
  LET lines == PatternLines(pattern)
  IN  IF Len(lines) = 0
      THEN [heap |-> h, ref |-> 0, width |-> -1, height |-> -1,
            err |-> "Pattern cannot be empty"]
      ELSE LET height == Len(lines)
               width == MaxLineLength(lines)
               cells == [r \in 1..height |->
                           [c \in 1..width |-> IsLiveChar(lines[r], c - 1)]]
           IN  [heap |-> Load(h, cells), ref |-> Len(h.grids) + 1,
                width |-> width, height |-> height, err |-> ""]

----------------------------------------------------------------------------
\* countLiveNeighbors

\* InBounds with the height and the width exchanged.
InBoundsSwapped(ny, nx, height, width) ==
  ny >= 0 /\ ny < width /\ nx >= 0 /\ nx < height

\* if (ny >= 0 && ny < height && nx >= 0 && nx < width)
InBounds(ny, nx, height, width) ==
  ny >= 0 /\ ny < height /\ nx >= 0 /\ nx < width

\* IsSelf without the skip: the cell counts itself.
IsSelfNever(dx, dy) == FALSE

\* if (dx === 0 && dy === 0) continue
IsSelf(dx, dy) == dx = 0 /\ dy = 0

\* The indices <<ny, nx>> at which countLiveNeighbors(grid, x, y) reads
\* grid[ny][nx].
NeighborReads(h, g, x, y) ==
  LET height == Height(h, g)
      width == Width(h, g)
  IN  {<<y + d[1], x + d[2]>> :
         d \in {e \in (-1..1) \X (-1..1) :
                  /\ ~IsSelf(e[2], e[1])
                  /\ InBounds(y + e[1], x + e[2], height, width)}}

CountLiveNeighbors(h, g, x, y) ==
  LET height == Height(h, g)
      width == Width(h, g)
  IN  Cardinality({d \in (-1..1) \X (-1..1) :
                     /\ ~IsSelf(d[2], d[1])
                     /\ InBounds(y + d[1], x + d[2], height, width)
                     /\ Live(h, g, y + d[1], x + d[2])})

----------------------------------------------------------------------------
\* nextGeneration

\* IsEmptyGrid without the test of the first row.
IsEmptyGridNoRows(h, g) == Len(h.grids[g]) = 0

\* grid.length === 0 || grid[0].length === 0
IsEmptyGrid(h, g) == Len(h.grids[g]) = 0 \/ Len(h.rows[h.grids[g][1]]) = 0

\* NextCell without survival on two neighbours.
NextCellOnlyThree(isAlive, liveNeighbors) == liveNeighbors = 3

\* NextCell where a live cell survives with 2 neighbours only.
NextCellSurviveTwo(isAlive, liveNeighbors) ==
  IF isAlive THEN liveNeighbors = 2 ELSE liveNeighbors = 3

\* NextCell without death by underpopulation.
NextCellNoUnderpopulation(isAlive, liveNeighbors) ==
  IF isAlive THEN liveNeighbors <= 3 ELSE liveNeighbors = 3

\* NextCell where a dead cell is born with up to 3 neighbours.
NextCellBirthUpToThree(isAlive, liveNeighbors) ==
  IF isAlive THEN liveNeighbors = 2 \/ liveNeighbors = 3
  ELSE liveNeighbors <= 3

\* The rules: the new value of a cell from its value and its neighbour count.
NextCell(isAlive, liveNeighbors) ==
  IF isAlive THEN liveNeighbors = 2 \/ liveNeighbors = 3
  ELSE liveNeighbors = 3

\* NewGrid updating the input grid in place.
NewGridInPlace(h, g, width, height) == [heap |-> h, ref |-> g, err |-> ""]

\* NewGrid with width and height exchanged.
NewGridSwapped(h, g, width, height) == CreateEmptyGrid(h, height, width)

\* const newGrid = createEmptyGrid(width, height)
NewGrid(h, g, width, height) == CreateEmptyGrid(h, width, height)

\* CountedGrid counting on the grid being filled.
CountedGridNew(g, ng) == ng

\* The grid whose neighbours are counted: countLiveNeighbors(grid, x, y).
CountedGrid(g, ng) == g

\* The <<x, y>> that the two loops visit.
VisitedCells(width, height) ==
  {<<k % width, k \div width>> : k \in 0..(width * height - 1)}

\* The two loops, y outside and x inside; k counts the cells visited.
\* Writing to a row that newGrid does not have is a TypeError.
RECURSIVE FillCells(_, _, _, _, _, _)
FillCells(h, g, ng, k, width, height) ==
  IF k >= width * height THEN [heap |-> h, err |-> ""]
  ELSE LET y == k \div width
           x == k % width
           liveNeighbors == CountLiveNeighbors(h, CountedGrid(g, ng), x, y)
           isAlive == Live(h, g, y, x)
       IN  IF ~HasRow(h, ng, y) THEN [heap |-> h, err |-> "TypeError"]
           ELSE FillCells(Put(h, ng, y, x, NextCell(isAlive, liveNeighbors)),
                          g, ng, k + 1, width, height)

\* The body of the loops applied to the cells in the order given: order is
\* a sequence of <<x, y>>, k the position reached.
RECURSIVE FillInOrder(_, _, _, _, _)
FillInOrder(h, g, ng, order, k) ==
  IF k > Len(order) THEN h
  ELSE LET x == order[k][1]
           y == order[k][2]
           liveNeighbors == CountLiveNeighbors(h, CountedGrid(g, ng), x, y)
           isAlive == Live(h, g, y, x)
       IN  FillInOrder(Put(h, ng, y, x, NextCell(isAlive, liveNeighbors)),
                       g, ng, order, k + 1)

NextGeneration(h, g) ==
  IF IsEmptyGrid(h, g)
  THEN [heap |-> h, ref |-> 0, err |-> "Grid cannot be empty"]
  ELSE LET height == Height(h, g)
           width == Width(h, g)
           made == NewGrid(h, g, width, height)
       IN  IF made.err # "" THEN made
           ELSE LET filled == FillCells(made.heap, g, made.ref, 0, width, height)
                IN  [heap |-> filled.heap,
                     ref  |-> IF filled.err = "" THEN made.ref ELSE 0,
                     err  |-> filled.err]

----------------------------------------------------------------------------
\* simulate

\* NegativeGenerations without the check.
NegativeGenerationsUnchecked(n) == FALSE

\* if (generations < 0) throw
NegativeGenerations(n) == n < 0

\* LoopContinues running one pass too many.
LoopContinuesInclusive(k, n) == k <= n

\* LoopContinues stopping one pass early.
LoopContinuesOneLess(k, n) == k < n - 1

\* for (let i = 0; i < generations; i++)
LoopContinues(k, n) == k < n

\* ReturnedGrid returning the initial grid.
ReturnedGridInitial(initialGrid, current) == initialGrid

\* return grid
ReturnedGrid(initialGrid, current) == current

\* The generation count of the demonstration run.
DemoGenerations == 4

----------------------------------------------------------------------------
\* gridToString

\* CellChar with the two characters exchanged.
CellCharInverted(cell) == IF cell THEN "." ELSE "O"

\* cell ? 'O' : '.'
CellChar(cell) == IF cell THEN "O" ELSE "."

\* Join with the separator after every part, the last one included.
RECURSIVE JoinTrailing(_, _)
JoinTrailing(parts, sep) ==
  IF Len(parts) = 0 THEN <<>>
  ELSE parts[1] \o sep \o JoinTrailing(Tail(parts), sep)

\* parts.join(sep)
RECURSIVE Join(_, _)
Join(parts, sep) ==
  IF Len(parts) = 0 THEN <<>>
  ELSE IF Len(parts) = 1 THEN parts[1]
  ELSE parts[1] \o sep \o Join(Tail(parts), sep)

GridToString(h, g) ==
  Join([r \in 1..Len(h.grids[g]) |->
          [c \in 1..Len(h.rows[h.grids[g][r]]) |->
             CellChar(h.rows[h.grids[g][r]][c])]],
       <<"\n">>)

----------------------------------------------------------------------------
\* countLiveCells

\* LiveInRow counting a row with live cells as one.
LiveInRowAny(row) == IF \E c \in 1..Len(row) : row[c] THEN 1 ELSE 0

\* LiveInRow counting the dead cells.
LiveInRowDead(row) == Cardinality({c \in 1..Len(row) : ~row[c]})

\* row.filter(cell => cell).length
LiveInRow(row) == Cardinality({c \in 1..Len(row) : row[c]})

\* grid.reduce((total, row) => total + ..., 0); k rows are already summed.
RECURSIVE SumRows(_, _, _, _)
SumRows(h, g, k, total) ==
  IF k >= Len(h.grids[g]) THEN total
  ELSE SumRows(h, g, k + 1, total + LiveInRow(h.rows[h.grids[g][k + 1]]))

CountLiveCells(h, g) == SumRows(h, g, 0, 0)

----------------------------------------------------------------------------
\* The processes of the two command-line tools while they do not run.
NoCli == [pc |-> "none"]

NoMetl == [pc |-> "none"]

----------------------------------------------------------------------------
\* The caller: it builds one input (a grid literal, a parsed pattern or an
\* empty grid) and then calls the engine on a grid it holds.

Init ==
  /\ heap = EmptyHeap
  /\ heap0 = EmptyHeap
  /\ pc = "start"
  /\ op = "none"
  /\ text = <<>>
  /\ arg = 0
  /\ argX = 0
  /\ argY = 0
  /\ generations = 0
  /\ i = 0
  /\ grid = 0
  /\ calls = 0
  /\ ret = NoRet
  /\ err = ""
  /\ cli = NoCli
  /\ metl = NoMetl

\* const grid: Grid = [[...], ...]
MakeGrid ==
  /\ pc = "start"
  /\ \E v \in GridValues :
       /\ heap' = Load(heap, v)
       /\ ret' = [NoRet EXCEPT !.grid = Len(heap.grids) + 1]
  /\ heap0' = heap
  /\ pc' = "ready"
  /\ op' = "literal"
  /\ UNCHANGED <<text, arg, argX, argY, generations, i, grid, calls, err>>
  /\ UNCHANGED <<cli, metl>>

CallParsePattern ==
  /\ pc = "start"
  /\ \E s \in Texts :
       \E out \in {ParsePattern(heap, s)} :
           /\ text' = s
           /\ heap' = out.heap
           /\ err' = out.err
           /\ ret' = [NoRet EXCEPT !.grid = out.ref, !.width = out.width,
                                   !.height = out.height]
           /\ pc' = IF out.err = "" THEN "ready" ELSE "returned"
  /\ heap0' = heap
  /\ op' = "parsePattern"
  /\ UNCHANGED <<arg, argX, argY, generations, i, grid, calls>>
  /\ UNCHANGED <<cli, metl>>

CallCreateEmptyGrid ==
  /\ pc = "start"
  /\ \E width \in -1..MaxSide, height \in -1..MaxSide :
       \E out \in {CreateEmptyGrid(heap, width, height)} :
           /\ argX' = width
           /\ argY' = height
           /\ heap' = out.heap
           /\ err' = out.err
           /\ ret' = [NoRet EXCEPT !.grid = out.ref]
           /\ pc' = IF out.err = "" THEN "ready" ELSE "returned"
  /\ heap0' = heap
  /\ op' = "createEmptyGrid"
  /\ UNCHANGED <<text, arg, generations, i, grid, calls>>
  /\ UNCHANGED <<cli, metl>>

CallCountLiveNeighbors ==
  /\ pc = "ready"
  /\ \E g \in 1..Len(heap.grids) :
       /\ ~IsEmptyGrid(heap, g)
       /\ \E x \in 0..(Width(heap, g) - 1), y \in 0..(Height(heap, g) - 1) :
            /\ arg' = g
            /\ argX' = x
            /\ argY' = y
            /\ ret' = [NoRet EXCEPT !.count = CountLiveNeighbors(heap, g, x, y)]
  /\ heap0' = heap
  /\ pc' = "returned"
  /\ op' = "countLiveNeighbors"
  /\ err' = ""
  /\ UNCHANGED <<heap, text, generations, i, grid, calls>>
  /\ UNCHANGED <<cli, metl>>

CallNextGeneration ==
  /\ pc = "ready"
  /\ \E g \in 1..Len(heap.grids) :
       \E out \in {NextGeneration(heap, g)} :
           /\ arg' = g
           /\ heap' = out.heap
           /\ err' = out.err
           /\ ret' = [NoRet EXCEPT !.grid = out.ref]
  /\ heap0' = heap
  /\ pc' = "returned"
  /\ op' = "nextGeneration"
  /\ calls' = 1
  /\ UNCHANGED <<text, argX, argY, generations, i, grid>>
  /\ UNCHANGED <<cli, metl>>

CallGridToString ==
  /\ pc = "ready"
  /\ \E g \in 1..Len(heap.grids) :
       /\ arg' = g
       /\ ret' = [NoRet EXCEPT !.str = GridToString(heap, g)]
  /\ heap0' = heap
  /\ pc' = "returned"
  /\ op' = "gridToString"
  /\ err' = ""
  /\ UNCHANGED <<heap, text, argX, argY, generations, i, grid, calls>>
  /\ UNCHANGED <<cli, metl>>

CallCountLiveCells ==
  /\ pc = "ready"
  /\ \E g \in 1..Len(heap.grids) :
       /\ arg' = g
       /\ ret' = [NoRet EXCEPT !.count = CountLiveCells(heap, g)]
  /\ heap0' = heap
  /\ pc' = "returned"
  /\ op' = "countLiveCells"
  /\ err' = ""
  /\ UNCHANGED <<heap, text, argX, argY, generations, i, grid, calls>>
  /\ UNCHANGED <<cli, metl>>

\* simulate, up to the loop: the check of generations, let grid = initialGrid.
CallSimulate ==
  /\ pc = "ready"
  /\ \E g \in 1..Len(heap.grids), n \in (-1..MaxGen) \cup {DemoGenerations} :
       /\ arg' = g
       /\ generations' = n
       /\ IF NegativeGenerations(n)
          THEN /\ err' = "Number of generations must be non-negative"
               /\ pc' = "returned"
               /\ grid' = 0
          ELSE /\ err' = ""
               /\ pc' = "simulate"
               /\ grid' = g
  /\ heap0' = heap
  /\ op' = "simulate"
  /\ i' = 0
  /\ calls' = 0
  /\ ret' = NoRet
  /\ UNCHANGED <<heap, text, argX, argY>>
  /\ UNCHANGED <<cli, metl>>

\* One pass of the loop: grid = nextGeneration(grid); i++.  An error thrown
\* by nextGeneration ends simulate.
SimulateStep ==
  /\ pc = "simulate"
  /\ LoopContinues(i, generations)
  /\ \E out \in {NextGeneration(heap, grid)} :
         /\ heap' = out.heap
         /\ calls' = calls + 1
         /\ IF out.err = ""
            THEN /\ grid' = out.ref
                 /\ i' = i + 1
                 /\ UNCHANGED <<pc, err>>
            ELSE /\ err' = out.err
                 /\ pc' = "returned"
                 /\ UNCHANGED <<grid, i>>
  /\ UNCHANGED <<heap0, op, text, arg, argX, argY, generations, ret>>
  /\ UNCHANGED <<cli, metl>>

\* return grid
SimulateReturn ==
  /\ pc = "simulate"
  /\ ~LoopContinues(i, generations)
  /\ ret' = [NoRet EXCEPT !.grid = ReturnedGrid(arg, grid)]
  /\ pc' = "returned"
  /\ UNCHANGED <<heap, heap0, op, text, arg, argX, argY, generations, i, grid,
                 calls, err>>
  /\ UNCHANGED <<cli, metl>>

Next ==
  \/ MakeGrid
  \/ CallParsePattern
  \/ CallCreateEmptyGrid
  \/ CallCountLiveNeighbors
  \/ CallNextGeneration
  \/ CallGridToString
  \/ CallCountLiveCells
  \/ CallSimulate
  \/ SimulateStep
  \/ SimulateReturn

Spec == Init /\ [][Next]_vars

----------------------------------------------------------------------------
\* The Game of Life command-line runner: main() of the cli.  The process is
\* the record cli:
\*   pc           the place reached in main ("exited" after the end)
\*   args         process.argv.slice(2), each argument a sequence of characters
\*   fileKind     what the path of the pattern file names
\*   fileText     the content of the pattern file
\*   generations  the parsed generation count
\*   exit         the exit status, -1 while the process runs
\*   stdout       the lines written by console.log
\*   stderr       the messages written by console.error
\* The engine calls of main use the variables of the engine.

HelpLong == <<"-", "-", "h", "e", "l", "p">>

HelpShort == <<"-", "h">>

PatternPath == <<"p">>

DigitValue ==
  [c \in {"0", "1", "2", "3", "4", "5", "6", "7", "8", "9"} |->
     CASE c = "0" -> 0 [] c = "1" -> 1 [] c = "2" -> 2 [] c = "3" -> 3
       [] c = "4" -> 4 [] c = "5" -> 5 [] c = "6" -> 6 [] c = "7" -> 7
       [] c = "8" -> 8 [] c = "9" -> 9]

\* The value of the longest prefix of digits of s, from the value acc of the
\* digits already read; seen tells whether a digit has been read.
RECURSIVE ParseDigits(_, _, _)
ParseDigits(s, acc, seen) ==
  IF Len(s) > 0 /\ s[1] \in DOMAIN DigitValue
  THEN ParseDigits(Tail(s), 10 * acc + DigitValue[s[1]], TRUE)
  ELSE [nan |-> ~seen, value |-> acc]

\* parseInt(s, 10): leading white space is skipped, a sign is read, then the
\* longest prefix of digits; without a digit the result is NaN.
ParseInt(s) ==
  LET t == TrimStart(s)
      signed == Len(t) > 0 /\ t[1] \in {"-", "+"}
      digits == ParseDigits(IF signed THEN Tail(t) ELSE t, 0, FALSE)
  IN  IF digits.nan THEN [nan |-> TRUE, value |-> 0]
      ELSE IF signed /\ t[1] = "-"
      THEN [nan |-> FALSE, value |-> 0 - digits.value]
      ELSE digits

\* The generation counts given on the command line.
GenerationArgs ==
  {<<"0">>, <<"1">>, <<"2">>, <<"4">>, <<"-", "1">>, <<"x">>, <<"2", "x">>,
   <<>>}

ArgLists ==
  {<<>>, <<HelpLong>>, <<HelpShort, <<"1">>>>, <<PatternPath>>,
   <<PatternPath, <<"1">>, <<"1">>>>}
    \cup {<<PatternPath, n>> : n \in GenerationArgs}

FileKinds == {"missing", "file", "directory"}

\* isNaN(generations) || generations < 0
GenerationsInvalid(n) == n.nan \/ n.value < 0

Printed(line, str, n) == [line |-> line, text |-> str, n |-> n]

Exited(status, message) ==
  [cli EXCEPT !.pc = "exited", !.exit = status,
              !.stderr = IF message = "" THEN @ ELSE Append(@, message)]

GameCliInit ==
  /\ heap = EmptyHeap
  /\ heap0 = EmptyHeap
  /\ pc = "start"
  /\ op = "none"
  /\ text = <<>>
  /\ arg = 0
  /\ argX = 0
  /\ argY = 0
  /\ generations = 0
  /\ i = 0
  /\ grid = 0
  /\ calls = 0
  /\ ret = NoRet
  /\ err = ""
  /\ \E args \in ArgLists, kind \in FileKinds, content \in Texts :
       cli = [pc |-> "main", args |-> args, fileKind |-> kind,
              fileText |-> IF kind = "file" THEN content ELSE <<>>,
              generations |-> [nan |-> TRUE, value |-> 0],
              exit |-> -1, stdout |-> <<>>, stderr |-> <<>>]
  /\ metl = NoMetl

\* The checks of the arguments: help, then the number of arguments.
MainArguments ==
  /\ cli.pc = "main"
  /\ cli' = IF Len(cli.args) = 0 \/ cli.args[1] \in {HelpLong, HelpShort}
            THEN [Exited(0, "") EXCEPT
                    !.stdout = Append(@, Printed("help", <<>>, 0))]
            ELSE IF Len(cli.args) # 2
            THEN [Exited(1, "Error: Expected exactly 2 arguments") EXCEPT
                    !.stdout = Append(@, Printed("help", <<>>, 0))]
            ELSE [cli EXCEPT !.pc = "generations"]
  /\ UNCHANGED <<heap, heap0, pc, op, text, arg, argX, argY, generations, i,
                 grid, calls, ret, err, metl>>

\* const generations = parseInt(generationsStr, 10) and its check.
MainGenerations ==
  /\ cli.pc = "generations"
  /\ \E n \in {ParseInt(cli.args[2])} :
       cli' = IF GenerationsInvalid(n)
              THEN [Exited(1, "Error: Generations must be a non-negative number")
                      EXCEPT !.generations = n]
              ELSE [cli EXCEPT !.pc = "file", !.generations = n]
  /\ UNCHANGED <<heap, heap0, pc, op, text, arg, argX, argY, generations, i,
                 grid, calls, ret, err, metl>>

\* fs.existsSync and fs.readFileSync; reading a directory throws outside
\* the try block, which ends the process with status 1.
MainPatternFile ==
  /\ cli.pc = "file"
  /\ cli' = IF cli.fileKind = "missing"
            THEN Exited(1, "Error: Pattern file not found")
            ELSE IF cli.fileKind = "directory"
            THEN Exited(1, "EISDIR")
            ELSE [cli EXCEPT !.pc = "try"]
  /\ UNCHANGED <<heap, heap0, pc, op, text, arg, argX, argY, generations, i,
                 grid, calls, ret, err, metl>>

\* parsePattern(patternText) and the report of the initial pattern; an error
\* thrown is caught, reported and ends the process with status 1.
MainParse ==
  /\ cli.pc = "try"
  /\ \E out \in {ParsePattern(heap, cli.fileText)} :
       /\ text' = cli.fileText
       /\ heap' = out.heap
       /\ err' = out.err
       /\ ret' = [NoRet EXCEPT !.grid = out.ref, !.width = out.width,
                               !.height = out.height]
       /\ pc' = IF out.err = "" THEN "ready" ELSE "returned"
       /\ cli' = IF out.err # "" THEN Exited(1, out.err)
                 ELSE [cli EXCEPT
                         !.pc = "parsed",
                         !.stdout = @ \o
                           <<Printed("Initial pattern:", <<>>, 0),
                             Printed("", GridToString(out.heap, out.ref), 0),
                             Printed("Live cells:", <<>>,
                                     CountLiveCells(out.heap, out.ref)),
                             Printed("Simulating", <<>>,
                                     cli.generations.value)>>]
  /\ heap0' = heap
  /\ op' = "parsePattern"
  /\ UNCHANGED <<arg, argX, argY, generations, i, grid, calls, metl>>

\* simulate(pattern.cells, generations), up to the loop.
MainSimulate ==
  /\ cli.pc = "parsed"
  /\ pc = "ready"
  /\ arg' = ret.grid
  /\ generations' = cli.generations.value
  /\ IF NegativeGenerations(cli.generations.value)
     THEN /\ err' = "Number of generations must be non-negative"
          /\ pc' = "returned"
          /\ grid' = 0
     ELSE /\ err' = ""
          /\ pc' = "simulate"
          /\ grid' = ret.grid
  /\ heap0' = heap
  /\ op' = "simulate"
  /\ i' = 0
  /\ calls' = 0
  /\ ret' = NoRet
  /\ cli' = [cli EXCEPT !.pc = "simulating"]
  /\ UNCHANGED <<heap, text, argX, argY, metl>>

\* After simulate: the report of the final pattern and the end of main, or
\* the catch block.
MainFinish ==
  /\ cli.pc = "simulating"
  /\ pc = "returned"
  /\ cli' = IF err # "" THEN Exited(1, err)
            ELSE [Exited(0, "") EXCEPT
                    !.stdout = @ \o
                      <<Printed("Final pattern", <<>>, cli.generations.value),
                        Printed("", GridToString(heap, ret.grid), 0),
                        Printed("Live cells:", <<>>,
                                CountLiveCells(heap, ret.grid))>>]
  /\ UNCHANGED <<heap, heap0, pc, op, text, arg, argX, argY, generations, i,
                 grid, calls, ret, err, metl>>

GameCliNext ==
  \/ MainArguments
  \/ MainGenerations
  \/ MainPatternFile
  \/ MainParse
  \/ MainSimulate
  \/ SimulateStep
  \/ SimulateReturn
  \/ MainFinish

GameCliSpec == GameCliInit /\ [][GameCliNext]_vars

----------------------------------------------------------------------------
\* The METL command-line tool (src/cli.ts).  The process is the record metl:
\*   pc         the place reached ("exited" after the end)
\*   command    args[0]
\*   apiKey     process.env.ANTHROPIC_API_KEY ("undefined" when it is not set)
\*   dirKind    what options.dir names
\*   alsFiles   the number of entries of the directory that end with .als
\*   unreadable some .als entry cannot be read as a file
\*   summaries  the summary files of earlier runs found in the directory
\*   scenarios  the number of scenarios generated, -1 before the generation
\*   queries    the number of agent queries started
\*   written    the result and summary files written by the tool
\*   exit       the exit status, -1 while the process runs

\* The most .als files of a model directory and the most scenarios that the
\* solver generates.
MaxModels == 2
MaxScenarios == 2

Commands == {"help", "extract", "explore", "validate", "document", "unknown"}

ApiKeys == {"undefined", "", "key"}

DirKinds == {"missing", "directory", "file"}

SummaryFiles == {"extraction-summary.txt", "validation-summary.txt"}

\* ApiKeyMissing without the check.
ApiKeyMissingNever(key) == FALSE

\* if (!apiKey): undefined and the empty string are falsy.
ApiKeyMissing(key) == key \in {"undefined", ""}

\* process.exit(status), and the end of main for status 0.
MetlExited(status) == [metl EXCEPT !.pc = "exited", !.exit = status]

\* The file written after the query, by command; document converts the
\* summaries that it finds.
ResultFiles(m) ==
  CASE m.command = "extract" -> {"extraction-summary.txt"}
    [] m.command = "explore" -> {"exploration-results.txt"}
    [] m.command = "validate" -> {"validation-summary.txt"}
    [] OTHER ->
         {"EXTRACTION_SUMMARY.md" : f \in m.summaries \cap
                                            {"extraction-summary.txt"}}
           \cup {"VALIDATION_SUMMARY.md" : f \in m.summaries \cap
                                                 {"validation-summary.txt"}}

MetlInit ==
  /\ heap = EmptyHeap
  /\ heap0 = EmptyHeap
  /\ pc = "start"
  /\ op = "none"
  /\ text = <<>>
  /\ arg = 0
  /\ argX = 0
  /\ argY = 0
  /\ generations = 0
  /\ i = 0
  /\ grid = 0
  /\ calls = 0
  /\ ret = NoRet
  /\ err = ""
  /\ cli = NoCli
  /\ \E command \in Commands, key \in ApiKeys, kind \in DirKinds,
        n \in 0..MaxModels, bad \in BOOLEAN, found \in SUBSET SummaryFiles :
       /\ kind # "directory" => (n = 0 /\ found = {})
       /\ n = 0 => ~bad
       /\ metl = [pc |-> "main", command |-> command, apiKey |-> key,
                  dirKind |-> kind, alsFiles |-> n, unreadable |-> bad,
                  summaries |-> found, scenarios |-> -1, queries |-> 0,
                  written |-> {}, exit |-> -1]

\* main: the switch over the command.
MetlMain ==
  /\ metl.pc = "main"
  /\ metl' = IF metl.command = "help" THEN MetlExited(0)
             ELSE IF metl.command = "unknown" THEN MetlExited(1)
             ELSE [metl EXCEPT !.pc = "ensureApiKey"]
  /\ UNCHANGED <<heap, heap0, pc, op, text, arg, argX, argY, generations, i,
                 grid, calls, ret, err, cli>>

EnsureApiKey ==
  /\ metl.pc = "ensureApiKey"
  /\ metl' = IF ApiKeyMissing(metl.apiKey) THEN MetlExited(1)
             ELSE [metl EXCEPT !.pc = "directory"]
  /\ UNCHANGED <<heap, heap0, pc, op, text, arg, argX, argY, generations, i,
                 grid, calls, ret, err, cli>>

\* fs.existsSync(options.dir): extract creates a missing directory, the
\* other commands exit.
ModelDirectory ==
  /\ metl.pc = "directory"
  /\ metl' = IF metl.command = "extract"
             THEN [metl EXCEPT
                     !.pc = "query",
                     !.dirKind = IF @ = "missing" THEN "directory" ELSE @]
             ELSE IF metl.dirKind = "missing" THEN MetlExited(1)
             ELSE [metl EXCEPT !.pc = "models"]
  /\ UNCHANGED <<heap, heap0, pc, op, text, arg, argX, argY, generations, i,
                 grid, calls, ret, err, cli>>

\* fs.readdirSync(options.dir).filter(f => f.endsWith('.als')) and the check
\* of its length.  readdirSync throws when the path is not a directory; the
\* error reaches the catch of main(), which exits with status 1.
FindModels ==
  /\ metl.pc = "models"
  /\ metl' = IF metl.dirKind # "directory" THEN MetlExited(1)
             ELSE IF metl.alsFiles = 0 THEN MetlExited(1)
             ELSE [metl EXCEPT
                     !.pc = IF metl.command = "validate" THEN "scenarios"
                            ELSE "read"]
  /\ UNCHANGED <<heap, heap0, pc, op, text, arg, argX, argY, generations, i,
                 grid, calls, ret, err, cli>>

\* fs.readFileSync of every model (explore and document); an error reaches
\* the catch of main().
ReadModels ==
  /\ metl.pc = "read"
  /\ metl' = IF metl.unreadable THEN MetlExited(1)
             ELSE [metl EXCEPT
                     !.pc = IF metl.command = "explore" THEN "scenarios"
                            ELSE "query"]
  /\ UNCHANGED <<heap, heap0, pc, op, text, arg, argX, argY, generations, i,
                 grid, calls, ret, err, cli>>

\* The loop running alloy-lang on every model (explore and validate); the
\* errors of the solver are caught inside the loop.  explore exits when no
\* scenario was generated.
GenerateScenarios ==
  /\ metl.pc = "scenarios"
  /\ \E n \in 0..MaxScenarios :
       metl' = IF metl.command = "explore" /\ n = 0
               THEN [MetlExited(1) EXCEPT !.scenarios = n]
               ELSE [metl EXCEPT !.pc = "query", !.scenarios = n]
  /\ UNCHANGED <<heap, heap0, pc, op, text, arg, argX, argY, generations, i,
                 grid, calls, ret, err, cli>>

\* const queryStream = query({...})
StartQuery ==
  /\ metl.pc = "query"
  /\ metl' = [metl EXCEPT !.pc = "stream", !.queries = @ + 1]
  /\ UNCHANGED <<heap, heap0, pc, op, text, arg, argX, argY, generations, i,
                 grid, calls, ret, err, cli>>

\* The stream throws: the catch block exits with status 1.
StreamFails ==
  /\ metl.pc = "stream"
  /\ metl' = MetlExited(1)
  /\ UNCHANGED <<heap, heap0, pc, op, text, arg, argX, argY, generations, i,
                 grid, calls, ret, err, cli>>

\* The stream ends: the result or summary file is written and the command
\* returns.  Writing into a path that is not a directory throws, which the
\* catch block turns into status 1.
StreamCompletes ==
  /\ metl.pc = "stream"
  /\ metl' = IF metl.dirKind # "directory" THEN MetlExited(1)
             ELSE [MetlExited(0) EXCEPT !.written = @ \cup ResultFiles(metl)]
  /\ UNCHANGED <<heap, heap0, pc, op, text, arg, argX, argY, generations, i,
                 grid, calls, ret, err, cli>>

MetlNext ==
  \/ MetlMain
  \/ EnsureApiKey
  \/ ModelDirectory
  \/ FindModels
  \/ ReadModels
  \/ GenerateScenarios
  \/ StartQuery
  \/ StreamFails
  \/ StreamCompletes

MetlSpec == MetlInit /\ [][MetlNext]_vars

----------------------------------------------------------------------------
\* Vocabulary of the properties.  Grid values are 1-based: v[r][c] is the
\* cell of row r - 1, column c - 1.

Abs(n) == IF n < 0 THEN -n ELSE n

\* Height >= 1, width >= 1 and every row of the same length.
WellFormed(v) ==
  /\ Len(v) >= 1
  /\ Len(v[1]) >= 1
  /\ \A r \in 1..Len(v) : Len(v[r]) = Len(v[1])

\* The live cells of v at distance exactly 1 (in the maximum norm) from
\* (r, c): the cells of the grid that touch (r, c), (r, c) itself excluded.
LiveAround(v, r, c) ==
  {p \in (1..Len(v)) \X (1..Len(v[1])) :
     /\ v[p[1]][p[2]]
     /\ Abs(p[1] - r) <= 1
     /\ Abs(p[2] - c) <= 1
     /\ p # <<r, c>>}

\* Conway's rule for the cell (r, c) of v.
AliveNext(v, r, c) ==
  LET n == Cardinality(LiveAround(v, r, c))
  IN  \/ v[r][c] /\ n \in {2, 3}
      \/ ~v[r][c] /\ n = 3

\* The grid passed to the running (or last) call, as it was at the call.
Input == GridValue(heap0, arg)

\* The grid the last call returned, as it is now.
Output == GridValue(heap, ret.grid)

\* nextGeneration as a function of grid values (v itself where it throws).
NextValue(v) ==
  CHOOSE w \in {IF out.err = "" THEN GridValue(out.heap, out.ref) ELSE v :
                  out \in {NextGeneration(Load(EmptyHeap, v), 1)}} : TRUE

RECURSIVE Iterate(_, _)
Iterate(v, n) ==
  IF n <= 0 THEN v
  ELSE CHOOSE w \in {Iterate(u, n - 1) : u \in {NextValue(v)}} : TRUE

Returned(name) == op = name /\ pc = "returned"

----------------------------------------------------------------------------
\* C1: for a non-empty rectangular grid g, the cell (row, col) of
\* nextGeneration(g) is alive exactly when it is alive in g with 2 or 3 live
\* neighbours, or dead in g with exactly 3 live neighbours.
C1_Rules ==
  (Returned("nextGeneration") /\ WellFormed(Input)) =>
    /\ err = ""
    /\ ret.grid # 0
    /\ \A r \in 1..Len(Input), c \in 1..Len(Input[1]) :
         Live(heap, ret.grid, r - 1, c - 1) <=> AliveNext(Input, r, c)

\* A call in which a cell survives, a cell dies of overpopulation and a cell
\* is born.
C1_Witness ==
  /\ Returned("nextGeneration")
  /\ WellFormed(Input)
  /\ \E r \in 1..Len(Input), c \in 1..Len(Input[1]) :
       Input[r][c] /\ Cardinality(LiveAround(Input, r, c)) = 2 /\ Output[r][c]
  /\ \E r \in 1..Len(Input), c \in 1..Len(Input[1]) :
       Input[r][c] /\ Cardinality(LiveAround(Input, r, c)) >= 4 /\ ~Output[r][c]
  /\ \E r \in 1..Len(Input), c \in 1..Len(Input[1]) :
       ~Input[r][c] /\ Cardinality(LiveAround(Input, r, c)) = 3 /\ Output[r][c]

\* C2: countLiveNeighbors(g, x, y) is the number of live cells among the
\* positions around (y, x) that lie inside the grid: nothing outside the grid
\* is counted, nothing wraps around, and the cell itself is not counted.
C2_NeighborCount ==
  Returned("countLiveNeighbors") =>
    ret.count = Cardinality(LiveAround(Input, argY + 1, argX + 1))

\* A live corner cell of a grid three cells wide and high whose opposite
\* edges are alive: a wrapped or self-counting count would not be 0.
C2_Witness ==
  /\ Returned("countLiveNeighbors")
  /\ argX = 0
  /\ argY = 0
  /\ Len(Input) = 3
  /\ Len(Input[1]) = 3
  /\ Input[1][1]
  /\ Input[1][3]
  /\ Input[3][1]
  /\ ret.count = 0

\* C3: parsePattern fails with 'Pattern cannot be empty', and returns no
\* pattern, whenever its input is empty or only whitespace.
C3_EmptyPatternRejected ==
  (op = "parsePattern" /\ \A k \in 1..Len(text) : IsSpace(text[k])) =>
    /\ err = "Pattern cannot be empty"
    /\ ret.grid = 0

\* C4: every grid the engine constructs and returns (parsePattern,
\* createEmptyGrid, nextGeneration, simulate after one or more generations)
\* is rectangular with width > 0 and height > 0.
C4_GridsWellFormed ==
  /\ (op \in {"parsePattern", "createEmptyGrid", "nextGeneration"} /\ err = "") =>
       (ret.grid # 0 /\ WellFormed(Output))
  /\ (op = "simulate" /\ pc = "simulate" /\ i >= 1) =>
       WellFormed(GridValue(heap, grid))
  /\ (Returned("simulate") /\ err = "" /\ generations >= 1) =>
       (ret.grid # 0 /\ WellFormed(Output))

\* C5: nextGeneration(g) and simulate(g, N), N >= 0, leave every cell and
\* the dimensions of a non-empty rectangular g as they were.
C5_InputUnchanged ==
  (/\ op \in {"nextGeneration", "simulate"}
   /\ generations >= 0
   /\ WellFormed(Input)) =>
    GridValue(heap, arg) = Input

\* simulate has run two generations or more and the grid it returns differs
\* from its input.
C5_Witness ==
  /\ Returned("simulate")
  /\ generations >= 2
  /\ err = ""
  /\ WellFormed(Input)
  /\ Output # Input
  /\ GridValue(heap, arg) = Input

\* C6 as stated: for every grid g and N >= 0, simulate(g, N) invokes
\* nextGeneration exactly N times and returns the N-fold composition.
C6_EveryGrid ==
  (Returned("simulate") /\ generations >= 0) =>
    /\ err = ""
    /\ calls = generations
    /\ ret.grid # 0
    /\ Output = Iterate(Input, generations)

\* C6 amended: for every non-empty rectangular grid g and N >= 0,
\* simulate(g, N) invokes nextGeneration exactly N times, each on the result
\* of the previous one starting from g, terminates, and returns the N-fold
\* composition of nextGeneration applied to g.  Termination: every step of
\* the loop raises i by one, i never exceeds N, and at i = N simulate returns.
C6_NonEmptyGrid ==
  /\ []((op = "simulate" /\ pc = "simulate" /\ WellFormed(Input)) =>
          /\ calls = i
          /\ i <= generations
          /\ (i = 0 => grid = arg))
  /\ []((Returned("simulate") /\ generations >= 0 /\ WellFormed(Input)) =>
          /\ err = ""
          /\ calls = generations
          /\ ret.grid # 0
          /\ Output = Iterate(Input, generations))
  /\ [][(op = "simulate" /\ pc = "simulate" /\ WellFormed(Input)) =>
          \/ /\ i < generations
             /\ i' = i + 1
             /\ pc' = "simulate"
             /\ GridValue(heap', grid') = NextValue(GridValue(heap, grid))
          \/ /\ i = generations
             /\ pc' = "returned"
             /\ err' = ""
             /\ ret'.grid = grid]_vars

\* simulate has returned after MaxGen generations, each of which changed
\* the grid.
C6_Witness ==
  /\ Returned("simulate")
  /\ generations = MaxGen
  /\ calls = MaxGen
  /\ err = ""
  /\ WellFormed(Input)
  /\ \A k \in 0..(MaxGen - 1) : Iterate(Input, k) # Iterate(Input, k + 1)
  /\ Output = Iterate(Input, MaxGen)

\* C7: simulate(g, 0) returns a grid equal to g, cell for cell and in its
\* dimensions, for every well-formed g, without invoking nextGeneration.
C7_ZeroGenerations ==
  (Returned("simulate") /\ generations = 0 /\ WellFormed(Input)) =>
    /\ err = ""
    /\ ret.grid # 0
    /\ Output = Input
    /\ calls = 0

\* simulate(g, 0) has returned for a g that one generation would change.
C7_Witness ==
  /\ Returned("simulate")
  /\ generations = 0
  /\ WellFormed(Input)
  /\ NextValue(Input) # Input
  /\ Output = Input

\* C8: simulate(g, N) with N < 0 fails with the 'non-negative' error for
\* every grid g, invokes no transition and returns no grid.
C8_NegativeGenerations ==
  (op = "simulate" /\ generations < 0) =>
    /\ pc = "returned"
    /\ err = "Number of generations must be non-negative"
    /\ calls = 0
    /\ ret.grid = 0
    /\ heap = heap0

\* simulate(g, -1) has failed on a well-formed g with live cells.
C8_Witness ==
  /\ Returned("simulate")
  /\ generations = -1
  /\ err # ""
  /\ WellFormed(Input)
  /\ \E r \in 1..Len(Input), c \in 1..Len(Input[1]) : Input[r][c]

\* C9: nextGeneration fails with 'Grid cannot be empty' exactly when the
\* input grid has zero rows or a first row of length zero, and then produces
\* no grid, not even a partial one; on every other input it returns a grid.
C9_EmptyGridError ==
  Returned("nextGeneration") =>
    IF Len(Input) = 0 \/ Len(Input[1]) = 0
    THEN /\ err = "Grid cannot be empty"
         /\ ret.grid = 0
         /\ heap = heap0
    ELSE /\ err = ""
         /\ ret.grid \in 1..Len(heap.grids)
         /\ ret.grid # arg

\* nextGeneration has failed on a grid that has a row, of length zero.
C9_Witness ==
  /\ Returned("nextGeneration")
  /\ Len(Input) >= 1
  /\ Len(Input[1]) = 0
  /\ err = "Grid cannot be empty"

\* C10: for a non-empty rectangular g, nextGeneration(g) has the height of
\* g and the width of g in every row; hence so has every grid of
\* simulate(g, N), N >= 0.
SameDimensions(v, w) ==
  /\ Len(w) = Len(v)
  /\ \A r \in 1..Len(w) : Len(w[r]) = Len(v[1])

C10_DimensionsKept ==
  /\ (Returned("nextGeneration") /\ WellFormed(Input)) =>
       (err = "" /\ ret.grid # 0 /\ SameDimensions(Input, Output))
  /\ (op = "simulate" /\ pc = "simulate" /\ WellFormed(Input)) =>
       SameDimensions(Input, GridValue(heap, grid))
  /\ (Returned("simulate") /\ generations >= 0 /\ WellFormed(Input)) =>
       (err = "" /\ ret.grid # 0 /\ SameDimensions(Input, Output))

\* simulate has returned, after two generations or more, on a grid that is
\* not square.
C10_Witness ==
  /\ Returned("simulate")
  /\ generations >= 2
  /\ err = ""
  /\ WellFormed(Input)
  /\ Len(Input) # Len(Input[1])
  /\ SameDimensions(Input, Output)

----------------------------------------------------------------------------
\* Vocabulary of the text properties, by positions instead of by scanning.

\* The positions of s that hold no white space.
Inked(s) == {k \in 1..Len(s) : ~IsSpace(s[k])}

Least(S) == CHOOSE k \in S : \A j \in S : k <= j

Greatest(S) == CHOOSE k \in S : \A j \in S : j <= k

\* s without the white space before its first and after its last character.
Core(s) ==
  IF Inked(s) = {} THEN <<>> ELSE SubSeq(s, Least(Inked(s)), Greatest(Inked(s)))

\* The positions of the line breaks of s.
Breaks(s) == {k \in 1..Len(s) : s[k] = "\n"}

LineCount(s) == Cardinality(Breaks(s)) + 1

\* Line r of s: what stands between its break r - 1 and its break r.
LineAt(s, r) ==
  LET lo == IF r = 1 THEN 0
            ELSE CHOOSE k \in Breaks(s) :
                   Cardinality({j \in Breaks(s) : j < k}) = r - 2
      hi == IF r = LineCount(s) THEN Len(s) + 1
            ELSE CHOOSE k \in Breaks(s) :
                   Cardinality({j \in Breaks(s) : j < k}) = r - 1
  IN  SubSeq(s, lo + 1, hi - 1)

\* The lines of s as they stand.
RawLines(s) == [r \in 1..LineCount(s) |-> LineAt(s, r)]

\* The lines of s once s and then each of its lines are trimmed.
TrimmedLines(s) == [r \in 1..LineCount(Core(s)) |-> Core(LineAt(Core(s), r))]

Longest(lines) == Greatest({Len(lines[r]) : r \in 1..Len(lines)})

\* The text of the lines, each with '.' for every character but 'O', padded
\* with '.' to width w, one line break between two lines.
Canonical(lines, w) ==
  [k \in 1..(Len(lines) * (w + 1) - 1) |->
     LET r == ((k - 1) \div (w + 1)) + 1
         c == ((k - 1) % (w + 1)) + 1
     IN  IF c = w + 1 THEN "\n"
         ELSE IF c <= Len(lines[r]) /\ lines[r][c] = "O" THEN "O" ELSE "."]

\* A rectangular text: one row or more, all of the same non-zero length, over
\* '.' and 'O', single line breaks between them, no white space around.
RectangularText(s) ==
  /\ Len(s) >= 1
  /\ \A k \in 1..Len(s) : s[k] \in {".", "O", "\n"}
  /\ \A r \in 1..LineCount(s) :
       Len(LineAt(s, r)) >= 1 /\ Len(LineAt(s, r)) = Len(LineAt(s, 1))

\* parsePattern has just returned a pattern.
Parsed == op = "parsePattern" /\ err = "" /\ ret.grid # 0

----------------------------------------------------------------------------
\* C11: for every accepted text, the width of the pattern is the greatest
\* length of its trimmed lines, every row has width cells, and cell (r, c) is
\* alive exactly when trimmed line r has the character 'O' at index c; every
\* other character and every position past the end of a line is dead.
C11_ParsedCells ==
  op = "parsePattern" =>
    /\ Parsed
    /\ ret.width = Longest(TrimmedLines(text))
    /\ Len(Output) = Len(TrimmedLines(text))
    /\ \A r \in 1..Len(Output) :
         /\ Len(Output[r]) = ret.width
         /\ \A c \in 1..ret.width :
              Output[r][c] <=>
                (c <= Len(TrimmedLines(text)[r]) /\ TrimmedLines(text)[r][c] = "O")

\* A parsed text with a live cell, a '.', and a line shorter than the width.
C11_Witness ==
  /\ Parsed
  /\ \E r \in 1..Len(Output) : Len(TrimmedLines(text)[r]) < ret.width
  /\ \E r \in 1..Len(Output) : \E c \in 1..ret.width : Output[r][c]
  /\ \E k \in 1..Len(text) : text[k] = "."

\* C12 as stated, on the texts with a character that is no white space: the
\* height of the pattern is the number of non-empty trimmed lines.
C12_NonEmptyLines ==
  (Parsed /\ Inked(text) # {}) =>
    ret.height = Cardinality({r \in 1..Len(TrimmedLines(text)) :
                                Len(TrimmedLines(text)[r]) > 0})

\* C12 amended: for every accepted text, the height of the pattern and the
\* number of rows of its cells are the number of lines of the trimmed text,
\* the blank lines between its first and its last line included.
C12_LinesOfTrimmedText ==
  op = "parsePattern" =>
    /\ Parsed
    /\ ret.height = LineCount(Core(text))
    /\ Len(Output) = ret.height

\* A parsed text with a blank line between two lines that are not blank.
C12_Witness ==
  /\ Parsed
  /\ ret.height = 3
  /\ Len(TrimmedLines(text)[1]) > 0
  /\ Len(TrimmedLines(text)[2]) = 0
  /\ Len(TrimmedLines(text)[3]) > 0
  /\ ~Output[2][1]

\* C13 as stated, on the texts with a character that is no white space:
\* gridToString(parsePattern(s).cells) is s for a rectangular s, and for any
\* other s it is s with '.' for every character but 'O' and the short lines
\* padded with '.'.
C13_RoundTripOfText ==
  (Parsed /\ Inked(text) # {}) =>
    IF RectangularText(text)
    THEN GridToString(heap, ret.grid) = text
    ELSE GridToString(heap, ret.grid) =
           Canonical(RawLines(text), Longest(RawLines(text)))

\* C13 amended: gridToString(parsePattern(s).cells) is s for a rectangular
\* s; for every s it is the text of the trimmed lines of s (s trimmed, then
\* each line trimmed) with '.' for every character but 'O' and the short
\* lines padded with '.' to the greatest line length.
C13_RoundTripOfTrimmedText ==
  op = "parsePattern" =>
    /\ Parsed
    /\ RectangularText(text) => GridToString(heap, ret.grid) = text
    /\ GridToString(heap, ret.grid) =
         Canonical(TrimmedLines(text), Longest(TrimmedLines(text)))

\* The glider as the unit tests write it, indented, renders as the glider.
C13_Witness ==
  /\ Parsed
  /\ text = GliderTestText
  /\ ~RectangularText(text)
  /\ GridToString(heap, ret.grid) = GliderText
  /\ RectangularText(GliderText)

----------------------------------------------------------------------------
\* Shapes of grids.

LivePositions(v) ==
  {p \in (1..Len(v)) \X (1..Len(v[1])) : v[p[1]][p[2]]}

AllDead(v) == \A r \in 1..Len(v) : \A c \in 1..Len(v[r]) : ~v[r][c]

\* (x, y) is a corner of v: on the first or last column and on the first or
\* last row.
AtCorner(v, x, y) ==
  /\ x \in {0, Len(v[1]) - 1}
  /\ y \in {0, Len(v) - 1}

\* (x, y) is on the border of v.
AtEdge(v, x, y) ==
  \/ x \in {0, Len(v[1]) - 1}
  \/ y \in {0, Len(v) - 1}

Blinker ==
  <<<<FALSE, FALSE, FALSE>>, <<TRUE, TRUE, TRUE>>, <<FALSE, FALSE, FALSE>>>>

VerticalLine ==
  <<<<FALSE, TRUE, FALSE>>, <<FALSE, TRUE, FALSE>>, <<FALSE, TRUE, FALSE>>>>

\* The only live cells of v form one 2x2 block.
OneBlock(v) ==
  /\ WellFormed(v)
  /\ \E r \in 1..(Len(v) - 1), c \in 1..(Len(v[1]) - 1) :
       LivePositions(v) = {r, r + 1} \X {c, c + 1}

\* v has exactly one live cell.
OneLiveCell(v) == WellFormed(v) /\ Cardinality(LivePositions(v)) = 1

Glider ==
  <<<<FALSE, TRUE, FALSE>>, <<FALSE, FALSE, TRUE>>, <<TRUE, TRUE, TRUE>>>>

GliderAfterFour ==
  <<<<FALSE, FALSE, FALSE>>, <<FALSE, TRUE, TRUE>>, <<FALSE, TRUE, TRUE>>>>

GliderAfterFourText ==
  <<".", ".", ".", "\n", ".", "O", "O", "\n", ".", "O", "O">>

\* The caller parsed the glider text.
GliderParsed == text \in {GliderText, GliderTestText}

----------------------------------------------------------------------------
\* C14: for every grid and every in-bounds coordinate, countLiveNeighbors
\* returns a value between 0 and 8; at a corner it is at most 3 and at an
\* edge coordinate that is not a corner at most 5, grids with a single row
\* or a single column included.
C14_NeighborBounds ==
  Returned("countLiveNeighbors") =>
    /\ err = ""
    /\ ret.count \in 0..8
    /\ AtCorner(Input, argX, argY) => ret.count <= 3
    /\ AtEdge(Input, argX, argY) => ret.count <= 5

\* countLiveNeighbors has returned 5 at an edge coordinate that is not a
\* corner.
C14_Witness ==
  /\ Returned("countLiveNeighbors")
  /\ AtEdge(Input, argX, argY)
  /\ ~AtCorner(Input, argX, argY)
  /\ Input[argY + 1][argX + 1]
  /\ ret.count = 5

\* C15: the blinker (a horizontal line of three live cells in the middle
\* row of a 3x3 grid) becomes the vertical line after one nextGeneration and
\* the vertical line becomes the blinker again; simulate(blinker, N) is the
\* blinker for even N and the vertical line for odd N, and the two differ.
C15_BlinkerPeriodTwo ==
  /\ Blinker # VerticalLine
  /\ (Returned("nextGeneration") /\ Input = Blinker) =>
       (err = "" /\ ret.grid # 0 /\ Output = VerticalLine)
  /\ (Returned("nextGeneration") /\ Input = VerticalLine) =>
       (err = "" /\ ret.grid # 0 /\ Output = Blinker)
  /\ (Returned("simulate") /\ Input = Blinker /\ generations >= 0) =>
       /\ err = ""
       /\ ret.grid # 0
       /\ Output = IF generations % 2 = 0 THEN Blinker ELSE VerticalLine

\* simulate(blinker, 3) has returned the vertical line.
C15_Witness ==
  /\ Returned("simulate")
  /\ Input = Blinker
  /\ generations = 3
  /\ calls = 3
  /\ Output = VerticalLine

\* C16: a grid whose only live cells form one 2x2 block, anywhere in a grid
\* of any dimensions, is a fixed point of nextGeneration, and
\* simulate(block, N) is the block for every N >= 0.
C16_BlockStillLife ==
  /\ (Returned("nextGeneration") /\ OneBlock(Input)) =>
       (err = "" /\ ret.grid # 0 /\ Output = Input)
  /\ (Returned("simulate") /\ OneBlock(Input) /\ generations >= 0) =>
       (err = "" /\ ret.grid # 0 /\ Output = Input)

\* simulate has returned the block of the 4x4 grid with a dead border after
\* MaxGen generations.
C16_Witness ==
  /\ Returned("simulate")
  /\ Input = BlockGrid
  /\ generations = MaxGen
  /\ calls = MaxGen
  /\ Output = BlockGrid

\* C17: a grid with exactly one live cell, anywhere and of any dimensions,
\* is all dead after one nextGeneration, and countLiveCells of the result
\* is 0.
C17_LoneCellDies ==
  (Returned("nextGeneration") /\ OneLiveCell(Input)) =>
    /\ err = ""
    /\ ret.grid # 0
    /\ SameDimensions(Input, Output)
    /\ AllDead(Output)
    /\ CountLiveCells(heap, ret.grid) = 0

\* nextGeneration has returned for a 3x3 grid whose one live cell is the
\* centre.
C17_Witness ==
  /\ Returned("nextGeneration")
  /\ OneLiveCell(Input)
  /\ Len(Input) = 3
  /\ Len(Input[1]) = 3
  /\ Input[2][2]
  /\ err = ""
  /\ CountLiveCells(heap, ret.grid) = 0

\* C18: the glider parsed from '.O.' / '..O' / 'OOO' has exactly 5 live
\* cells, and the grid after one nextGeneration has more than 0 live cells.
C18_GliderCounts ==
  /\ (op = "parsePattern" /\ GliderParsed) =>
       /\ Parsed
       /\ Output = Glider
       /\ CountLiveCells(heap, ret.grid) = 5
  /\ (Returned("nextGeneration") /\ GliderParsed) =>
       /\ err = ""
       /\ Input = Glider
       /\ CountLiveCells(heap0, arg) = 5
       /\ ret.grid # 0
       /\ CountLiveCells(heap, ret.grid) > 0

\* nextGeneration has returned for the glider parsed from the text.
C18_Witness ==
  /\ Returned("nextGeneration")
  /\ text = GliderText
  /\ Input = Glider
  /\ CountLiveCells(heap, arg) = 5
  /\ CountLiveCells(heap, ret.grid) > 0

\* C19: simulate of the parsed 3x3 glider (5 live cells) for 4 generations
\* makes 4 transitions and returns the grid '...' / '.OO' / '.OO', which has
\* 4 live cells.
C19_GliderAfterFour ==
  (Returned("simulate") /\ GliderParsed /\ generations = DemoGenerations) =>
    /\ Input = Glider
    /\ CountLiveCells(heap0, arg) = 5
    /\ err = ""
    /\ calls = DemoGenerations
    /\ ret.grid # 0
    /\ Output = GliderAfterFour
    /\ GridToString(heap, ret.grid) = GliderAfterFourText
    /\ CountLiveCells(heap, ret.grid) = 4

\* simulate has returned for the parsed glider after 4 generations.
C19_Witness ==
  /\ Returned("simulate")
  /\ text = GliderText
  /\ generations = DemoGenerations
  /\ calls = DemoGenerations
  /\ Output = GliderAfterFour

\* C20: for a non-empty rectangular all-dead grid, nextGeneration returns an
\* all-dead grid of the same dimensions; and once the grid of a simulation
\* is all dead, the grid of every later step is all dead and so is the
\* returned grid (countLiveCells stays 0).
C20_DeadStaysDead ==
  /\ []((Returned("nextGeneration") /\ WellFormed(Input) /\ AllDead(Input)) =>
          /\ err = ""
          /\ ret.grid # 0
          /\ SameDimensions(Input, Output)
          /\ AllDead(Output)
          /\ CountLiveCells(heap, ret.grid) = 0)
  /\ [][(/\ op = "simulate"
         /\ pc = "simulate"
         /\ WellFormed(GridValue(heap, grid))
         /\ AllDead(GridValue(heap, grid))) =>
          /\ err' = ""
          /\ AllDead(GridValue(heap', grid'))
          /\ CountLiveCells(heap', grid') = 0
          /\ pc' = "returned" =>
               (ret'.grid # 0 /\ CountLiveCells(heap', ret'.grid) = 0)]_vars

\* A simulation of a grid with live cells has reached an all-dead grid
\* before its last generation and has returned an all-dead grid.
C20_Witness ==
  /\ Returned("simulate")
  /\ err = ""
  /\ WellFormed(Input)
  /\ ~AllDead(Input)
  /\ generations = MaxGen
  /\ AllDead(Iterate(Input, 1))
  /\ AllDead(Output)
  /\ CountLiveCells(heap, ret.grid) = 0

----------------------------------------------------------------------------
\* Vocabulary for grids that may have no row or rows of length 0.

\* Every row of v has the length of the first.
Rectangular(v) == \A r \in 1..Len(v) : Len(v[r]) = Len(v[1])

RowLength(v) == IF Len(v) = 0 THEN 0 ELSE Len(v[1])

Area(v) == Len(v) * RowLength(v)

AliveCells(v) ==
  {p \in UNION {{r} \X (1..Len(v[r])) : r \in 1..Len(v)} : v[p[1]][p[2]]}

----------------------------------------------------------------------------
\* C21: countLiveCells(g) is the number of alive cells of g for every
\* rectangular grid g; it is 0 for an all-dead grid and never exceeds
\* width x height.
C21_CensusIsTotal ==
  (Returned("countLiveCells") /\ Rectangular(Input)) =>
    /\ err = ""
    /\ heap = heap0
    /\ ret.count = Cardinality(AliveCells(Input))
    /\ AllDead(Input) => ret.count = 0
    /\ ret.count <= Area(Input)

\* countLiveCells has returned for a grid of several rows with live cells in
\* more than one row and dead cells too.
C21_Witness ==
  /\ Returned("countLiveCells")
  /\ Rectangular(Input)
  /\ \E p, q \in AliveCells(Input) : p[1] # q[1]
  /\ ret.count >= 2
  /\ ret.count < Area(Input)

\* C22: gridToString renders a rectangular grid as one line per row, each of
\* exactly width characters, 'O' for an alive and '.' for a dead cell, the
\* lines joined by a single line break, with no line break after the last.
C22_Rendering ==
  (Returned("gridToString") /\ Rectangular(Input)) =>
    LET h == Len(Input)
        w == RowLength(Input)
    IN  /\ err = ""
        /\ heap = heap0
        /\ Len(ret.str) = (IF h = 0 THEN 0 ELSE h * (w + 1) - 1)
        /\ \A r \in 1..h :
             /\ \A c \in 1..w :
                  ret.str[(r - 1) * (w + 1) + c] =
                    (IF Input[r][c] THEN "O" ELSE ".")
             /\ r < h => ret.str[r * (w + 1)] = "\n"

\* gridToString has returned for a grid of several rows that has both alive
\* and dead cells.
C22_Witness ==
  /\ Returned("gridToString")
  /\ Rectangular(Input)
  /\ Len(Input) >= 2
  /\ RowLength(Input) >= 2
  /\ AliveCells(Input) # {}
  /\ Cardinality(AliveCells(Input)) < Area(Input)
  /\ Len(ret.str) = Area(Input) + Len(Input) - 1

\* C23: createEmptyGrid(width, height) fails with the 'positive' error when
\* width <= 0 or height <= 0, and otherwise returns a grid of exactly height
\* rows of exactly width cells each, all dead.
C23_CreateEmptyGrid ==
  op = "createEmptyGrid" =>
    IF argX <= 0 \/ argY <= 0
    THEN /\ pc = "returned"
         /\ err = "Grid dimensions must be positive"
         /\ ret.grid = 0
         /\ heap = heap0
    ELSE /\ err = ""
         /\ ret.grid # 0
         /\ Len(Output) = argY
         /\ \A r \in 1..argY :
              /\ Len(Output[r]) = argX
              /\ \A c \in 1..argX : ~Output[r][c]

\* createEmptyGrid has returned a grid that is wider than high.
C23_Witness ==
  /\ op = "createEmptyGrid"
  /\ err = ""
  /\ argX = MaxSide
  /\ argY = 2
  /\ Len(Output) = 2
  /\ Len(Output[1]) = MaxSide

\* C27: for every rectangular grid g with width >= 1 and height >= 1,
\* parsePattern(gridToString(g)) has the width and the height of g and cells
\* equal to g cell for cell.
C27_RoundTripOfGrid ==
  (Returned("gridToString") /\ WellFormed(Input)) =>
    \E out \in {ParsePattern(heap, ret.str)} :
      /\ out.err = ""
      /\ out.width = Len(Input[1])
      /\ out.height = Len(Input)
      /\ GridValue(out.heap, out.ref) = Input

\* gridToString has returned for a grid with live cells whose first row and
\* first column are all dead.
C27_Witness ==
  /\ Returned("gridToString")
  /\ WellFormed(Input)
  /\ AliveCells(Input) # {}
  /\ \A p \in AliveCells(Input) : p[1] > 1 /\ p[2] > 1
  /\ GridValue(ParsePattern(heap, ret.str).heap,
               ParsePattern(heap, ret.str).ref) = Input

----------------------------------------------------------------------------
\* Vocabulary for storage: which writes reach which grid.

\* The <<y, x>> of the cells of grid g.
CellsOf(h, g) ==
  UNION {{y} \X (0..(Len(h.rows[h.grids[g][y + 1]]) - 1)) :
           y \in 0..(Len(h.grids[g]) - 1)}

\* The row arrays of grid g.
RowsOf(h, g) == {h.grids[g][r] : r \in 1..Len(h.grids[g])}

\* A write to the cell (y, x) of g that changes it.
Touch(h, g, y, x) == Put(h, g, y, x, ~Live(h, g, y, x))

\* a and b are different arrays with no row array in common, so that no
\* write to a cell of one changes the other.
Separate(h, a, b) ==
  /\ a # b
  /\ RowsOf(h, a) \cap RowsOf(h, b) = {}
  /\ \A p \in CellsOf(h, a) :
       GridValue(Touch(h, a, p[1], p[2]), b) = GridValue(h, b)
  /\ \A p \in CellsOf(h, b) :
       GridValue(Touch(h, b, p[1], p[2]), a) = GridValue(h, a)

\* The last call was one of the operations that return a grid, and returned
\* one.
ReturnsGrid ==
  /\ op \in {"nextGeneration", "simulate"}
  /\ pc = "returned"
  /\ err = ""
  /\ ret.grid # 0

\* The returned grid was allocated by the call and is separate from the
\* input grid.
FreshOutput ==
  /\ ret.grid \notin 1..Len(heap0.grids)
  /\ RowsOf(heap, ret.grid) \cap (1..Len(heap0.rows)) = {}
  /\ Separate(heap, arg, ret.grid)

\* C25 as stated: nextGeneration, and simulate for every N >= 0, N = 0
\* included, return a freshly allocated grid: the grid and its rows are
\* distinct from the input grid and its rows, and a write to a cell of one
\* never changes the other.
C25_AlwaysFresh == ReturnsGrid => FreshOutput

\* C25: nextGeneration, and simulate for every N >= 1, return a freshly
\* allocated grid, separate from the input grid; simulate for N = 0 returns
\* the input grid itself, so that a write to a cell of the returned grid is
\* a write to the caller's input grid.
C25_FreshAfterTransition ==
  ReturnsGrid =>
    IF op = "simulate" /\ generations = 0
    THEN /\ ret.grid = arg
         /\ heap = heap0
         /\ \A p \in CellsOf(heap, ret.grid) :
              GridValue(Touch(heap, ret.grid, p[1], p[2]), arg) # Input
    ELSE FreshOutput

\* simulate has returned after two generations or more a grid with cells
\* that is separate from its input.
C25_Witness ==
  /\ ReturnsGrid
  /\ op = "simulate"
  /\ generations >= 2
  /\ CellsOf(heap, ret.grid) # {}
  /\ Output # Input
  /\ FreshOutput

----------------------------------------------------------------------------
\* The most cells of a grid for which every visiting order is tried.
MaxPermuted == 4

\* The simultaneous update of all cells of v.
Simultaneous(v) ==
  [r \in 1..Len(v) |-> [c \in 1..Len(v[1]) |-> AliveNext(v, r, c)]]

\* Orders of visiting the cells <<x, y>> of a grid: by rows, by columns,
\* both backwards too, and every order where the cells are few.
VisitOrders(width, height) ==
  LET n == width * height
      byRows == [k \in 1..n |-> <<(k - 1) % width, (k - 1) \div width>>]
      byColumns == [k \in 1..n |-> <<(k - 1) \div height, (k - 1) % height>>]
      Backwards(o) == [k \in 1..n |-> o[n + 1 - k]]
      sweeps == {byRows, byColumns, Backwards(byRows), Backwards(byColumns)}
      cells == (0..(width - 1)) \X (0..(height - 1))
  IN  IF n > MaxPermuted THEN sweeps
      ELSE sweeps \cup {o \in [1..n -> cells] :
                          \A j, k \in 1..n : j # k => o[j] # o[k]}

\* The grid that the loop body builds from the input of the call when the
\* cells are visited in the order o.
FilledInOrder(o) ==
  CHOOSE w \in {GridValue(FillInOrder(made.heap, arg, made.ref, o, 1),
                          made.ref) :
                  made \in {NewGrid(heap0, arg, Width(heap0, arg),
                                    Height(heap0, arg))}} : TRUE

\* The update of the blinker in place: the loops fill the input grid itself.
BlinkerInPlace ==
  GridValue(FillCells(Load(EmptyHeap, Blinker), 1, 1, 0, 3, 3).heap, 1)

\* C26: nextGeneration takes every neighbour count from the input grid, so
\* its result is the same for every order of visiting the cells and is the
\* simultaneous update of all cells; an update in place, which reads
\* neighbours already updated, gives another result.
C26_Snapshot ==
  (Returned("nextGeneration") /\ WellFormed(Input)) =>
    /\ err = ""
    /\ ret.grid # 0
    /\ Output = Simultaneous(Input)
    /\ \A o \in VisitOrders(Len(Input[1]), Len(Input)) :
         FilledInOrder(o) = Output
    /\ Input = Blinker => BlinkerInPlace # Output

\* nextGeneration has returned for the blinker, which an update in place
\* would have turned into another grid.
C26_Witness ==
  /\ Returned("nextGeneration")
  /\ Input = Blinker
  /\ Output = VerticalLine
  /\ BlinkerInPlace # VerticalLine
  /\ FilledInOrder([k \in 1..9 |-> <<(9 - k) \div 3, (9 - k) % 3>>]) = Output

----------------------------------------------------------------------------
\* C28: on a non-empty rectangular grid, square or not, nextGeneration
\* calls countLiveNeighbors only with x in 0..width-1 and y in
\* 0..height-1, and every cell read or written by nextGeneration and
\* countLiveNeighbors has its row index in 0..height-1 and its column
\* index in 0..width-1.
C28_IndicesInRange ==
  /\ (Returned("nextGeneration") /\ WellFormed(Input)) =>
       LET rows == 0..(Len(Input) - 1)
           cols == 0..(Len(Input[1]) - 1)
       IN  /\ err = ""
           /\ VisitedCells(Width(heap0, arg), Height(heap0, arg)) =
                cols \X rows
           /\ \A cell \in VisitedCells(Width(heap0, arg), Height(heap0, arg)) :
                /\ HasRow(heap, ret.grid, cell[2])
                /\ NeighborReads(heap0, arg, cell[1], cell[2])
                     \subseteq rows \X cols
           /\ CellsOf(heap, ret.grid) = rows \X cols
  /\ (Returned("countLiveNeighbors") /\ WellFormed(Input)) =>
       NeighborReads(heap0, arg, argX, argY)
         \subseteq (0..(Len(Input) - 1)) \X (0..(Len(Input[1]) - 1))

\* nextGeneration has returned for a grid that is not square, in which some
\* cell has five neighbours inside the grid.
C28_Witness ==
  /\ Returned("nextGeneration")
  /\ WellFormed(Input)
  /\ Len(Input) # Len(Input[1])
  /\ \E cell \in VisitedCells(Width(heap0, arg), Height(heap0, arg)) :
       Cardinality(NeighborReads(heap0, arg, cell[1], cell[2])) = 5
  /\ err = ""

----------------------------------------------------------------------------
\* Writing the cell (y, x) of g changes that cell and no other, and no two
\* rows of g are the same array.
RowsIndependent(h, g) ==
  /\ \A r1, r2 \in 1..Len(h.grids[g]) :
       r1 # r2 => h.grids[g][r1] # h.grids[g][r2]
  /\ \A p \in CellsOf(h, g) :
       GridValue(Touch(h, g, p[1], p[2]), g) =
         [GridValue(h, g) EXCEPT ![p[1] + 1][p[2] + 1] = ~@]

\* C29: the rows of a grid returned by createEmptyGrid, and of the grid
\* built by nextGeneration, are independent: writing one cell changes only
\* that cell, and no two rows share storage.
C29_RowsIndependent ==
  (/\ op \in {"createEmptyGrid", "nextGeneration"}
   /\ pc \in {"ready", "returned"}
   /\ err = "") =>
    /\ ret.grid # 0
    /\ RowsIndependent(heap, ret.grid)

\* createEmptyGrid has returned a grid of several rows of several cells.
C29_Witness ==
  /\ op = "createEmptyGrid"
  /\ err = ""
  /\ argX >= 2
  /\ argY >= 2
  /\ Cardinality(RowsOf(heap, ret.grid)) = argY
  /\ RowsIndependent(heap, ret.grid)

----------------------------------------------------------------------------
\* The runner was given a pattern file and a generation count: two
\* arguments, the first the path of a file, the second a number.
GivenFileAndCount ==
  /\ Len(cli.args) = 2
  /\ cli.args[1] \notin {HelpLong, HelpShort}
  /\ cli.fileKind = "file"
  /\ ~ParseInt(cli.args[2]).nan

\* The run meets one of the failures of the engine: an empty pattern (no
\* character but white space, which also gives the empty grid) or a negative
\* generation count.
MeetsEngineFailure ==
  \/ Inked(cli.fileText) = {}
  \/ ParseInt(cli.args[2]).value < 0

\* C24: the runner, given a pattern file and a generation count, ends with
\* a non-zero exit status and an error message on every run that meets one
\* of the engine failures (empty pattern, empty grid, negative generation
\* count), and with exit status zero on every other run.
C24_ExitStatus ==
  (cli.pc = "exited" /\ GivenFileAndCount) =>
    IF MeetsEngineFailure
    THEN cli.exit # 0 /\ cli.stderr # <<>>
    ELSE cli.exit = 0 /\ cli.stderr = <<>>

----------------------------------------------------------------------------
\* The command is one of the three that read extracted models.
ReadsModels == metl.command \in {"explore", "validate", "document"}

\* The API key is set (to a non-empty value), the model directory exists
\* and it holds at least one .als file.
ModelsAvailable ==
  /\ metl.apiKey \notin {"undefined", ""}
  /\ metl.dirKind # "missing"
  /\ metl.alsFiles >= 1

\* The command has ended with status 1 without starting a query and without
\* writing a result or summary file.
FailedBeforeQuery ==
  /\ metl.exit = 1
  /\ metl.queries = 0
  /\ metl.written = {}

\* C30: explore, validate and document never start the agent query unless
\* the API key is set, the model directory exists and it holds at least one
\* .als file; in each of the other cases the command ends with exit status
\* 1 before any query is started and before any result or summary file is
\* written; explore also exits with status 1 before the query when no
\* scenario was generated.
C30_QueryGuard ==
  ReadsModels =>
    /\ metl.queries > 0 => ModelsAvailable
    /\ (metl.queries > 0 /\ metl.command = "explore") => metl.scenarios >= 1
    /\ metl.written # {} => metl.queries > 0
    /\ (metl.pc = "exited" /\ ~ModelsAvailable) => FailedBeforeQuery
    /\ (metl.pc = "exited" /\ metl.command = "explore" /\ metl.scenarios = 0)
         => FailedBeforeQuery
    /\ metl.pc # "exited" => metl.exit = -1

\* validate has ended with status 1 before the query because the directory,
\* which exists, holds no .als file, although the API key is set.
C30_Witness ==
  /\ metl.command = "validate"
  /\ metl.pc = "exited"
  /\ metl.apiKey = "key"
  /\ metl.dirKind = "directory"
  /\ metl.alsFiles = 0
  /\ FailedBeforeQuery

====
